---- MODULE Spec2Model ----
(***************************************************************************)
(* The listing-ingestion pipeline of services/crawler:                     *)
(*   mls_crawler.py  MLSCrawler.run_crawl_job and its stages               *)
(*   scheduler.py    CrawlerScheduler (start, stop, loop)                  *)
(*   main.py         POST /crawl (trigger_crawl)                           *)
(*   opensearch_client.py  bulk_index_listings, _process_bulk_response     *)
(*   database.py     listings, crawl_jobs, DatabaseManager                 *)
(*                                                                         *)
(* A run is an asyncio task: its position pc is the await it is suspended  *)
(* at, and one action is what the task does between two suspensions.       *)
(*                                                                         *)
(* database.py declares DatabaseManager.get_session as a bare async        *)
(* generator (no @asynccontextmanager) and every caller enters it with     *)
(* `async with`. The model gives get_session the context-manager behaviour *)
(* its body is written for (initialize if needed, yield the session,       *)
(* rollback and re-raise on an exception, close).                          *)
(***************************************************************************)
EXTENDS Integers, Sequences, FiniteSets, TLC

----------------------------------------------------------------------------
(* Bounds of the model *)

MaxRuns == 2        \* runs (tasks executing run_crawl_job) in one behaviour
MaxFetch == 3       \* longest upstream response, in records
NumIds == 2         \* distinct MLS ids the upstream serves
\* Scheduler time, in cron periods: the loop passes two fire times per run it
\* triggers, so that run k is triggered at time 2k
MaxTime == 2 * MaxRuns
MaxStarts == 2      \* calls of CrawlerScheduler.start() that start a loop
batch_size == 2     \* settings.batch_size (config.py:93, default 100)
error_sample_size == 1  \* the errors bulk_index_listings logs of a response,
                        \* stats['errors'][:5], scaled as batch_size is
MaxChars == 5               \* longest property-type or status string, in characters
MaxBatchRecords == 10       \* longest list of records given to the normalizer alone
max_listings_per_run == 2   \* settings.max_listings_per_run (default 10000):
                            \* the limit parameter of the upstream request

(* Program constants *)

mls_retry_attempts == 3     \* settings.mls_retry_attempts
mls_retry_delay == 5        \* settings.mls_retry_delay, in seconds
upload_max_retries == 3     \* S3Manager._upload_with_retry: max_retries
upload_retry_delay == 1     \* S3Manager._upload_with_retry: retry_delay, in seconds

Runs == 1..MaxRuns
Loops == 1..MaxStarts
MlsIds == 1..NumIds
None == 0                   \* Python None for task and run references

\* No archive key: store_raw_data has not generated or not returned one
NoKey == [timestamp |-> 0 - 1, suffix |-> 0]

----------------------------------------------------------------------------
(* Data *)

\* A raw record as the upstream returns it. id 0 stands for a record that
\* MLSRawListing rejects (a missing or empty id: Field(..., min_length=1)).
RawRecords == [id : 0..NumIds]

RECURSIVE SeqsUpTo(_, _)
SeqsUpTo(S, n) ==
    IF n = 0 THEN {<<>>}
    ELSE LET shorter == SeqsUpTo(S, n - 1)
         IN  shorter \cup {Append(s, x) : s \in {t \in shorter : Len(t) = n - 1}, x \in S}

\* Every response of at most MaxFetch records
AllResponses == SeqsUpTo(RawRecords, MaxFetch)

\* A few responses, for the specification with concurrent runs
FewResponses == {<<>>, <<[id |-> 1]>>, <<[id |-> 1], [id |-> 0]>>}

\* No response body: no attempt of the fetch has succeeded, or a later stage
\* has begun
NoResponse ==
    [kind |-> "none", items |-> <<>>, keys |-> {}, listings |-> <<>>,
     data |-> <<>>, id |-> 0]

\* response.json(): a JSON array of records; a JSON object with the key
\* listings, the key data, both or neither (the object is then a record
\* itself, with its id); or another JSON value
ResponseBodies(seqs) ==
    {[NoResponse EXCEPT !.kind = "list", !.items = s] : s \in seqs}
    \cup {[NoResponse EXCEPT !.kind = "dict", !.keys = {"listings"}, !.listings = s] :
              s \in seqs}
    \cup {[NoResponse EXCEPT !.kind = "dict", !.keys = {"data"}, !.data = s] : s \in seqs}
    \cup {[NoResponse EXCEPT !.kind = "dict", !.keys = {"listings", "data"},
                             !.listings = s, !.data = t] :
              s \in seqs, t \in {<<>>, <<[id |-> 1]>>}}
    \cup {[NoResponse EXCEPT !.kind = "dict", !.id = i] : i \in 0..NumIds}
    \cup {[NoResponse EXCEPT !.kind = "other"]}

\* The bodies that are JSON arrays, for the specification with concurrent runs
ArrayBodies(seqs) == {[NoResponse EXCEPT !.kind = "list", !.items = s] : s \in seqs}

\* Faulty variant of ExtractListings: the key data is looked up before the key
\* listings
ExtractDataFirst(data) ==
    IF data.kind = "list" THEN data.items
    ELSE IF data.kind = "dict"
         THEN IF "data" \in data.keys THEN data.data
              ELSE IF "listings" \in data.keys THEN data.listings
              ELSE <<[id |-> data.id]>>
         ELSE <<>>

\* _fetch_mls_data, "Handle different API response formats":
\* isinstance(data, list) -> data; dict with 'listings' -> data['listings'];
\* dict with 'data' -> data['data']; another dict -> [data]; else []
ExtractListings(data) ==
    IF data.kind = "list" THEN data.items
    ELSE IF data.kind = "dict"
         THEN IF "listings" \in data.keys THEN data.listings
              ELSE IF "data" \in data.keys THEN data.data
              ELSE <<[id |-> data.id]>>
         ELSE <<>>

\* Faulty variant of BackoffDelay: the delay does not grow
ConstantDelay(attempt) == mls_retry_delay

\* asyncio.sleep(settings.mls_retry_delay * (2 ** attempt))
BackoffDelay(attempt) == mls_retry_delay * (2 ^ attempt)

\* not (attempt < settings.mls_retry_attempts - 1): the else branch, raise
IsLastAttempt(attempt) == ~(attempt < mls_retry_attempts - 1)

\* The stages of run_crawl_job, steps 1 to 5
Pipeline == <<"fetch", "archive", "normalize", "persist", "index">>

\* MLSRawListing(**raw_data): raises a validation error unless it returns
MLSRawListingValid(raw) == raw.id >= 1

(* Strings of the free-text fields. A string is the sequence of its characters;
   Absent is Python None (the key is missing from the record, or null). *)

Absent == <<"None">>

\* The characters the upstream's property-type and status strings are made of
\* in the model: enough to spell "lot", "sold", capitals and padding
Chars == {"l", "o", "t", "s", "d", "L", "S", " "}

RECURSIVE StringsUpTo(_)
StringsUpTo(n) ==
    IF n = 0 THEN {<<>>}
    ELSE LET shorter == StringsUpTo(n - 1)
         IN  shorter \cup {Append(w, c) : w \in {v \in shorter : Len(v) = n - 1}, c \in Chars}

UpperCase == <<"A", "B", "C", "D", "E", "F", "G", "H", "I", "J", "K", "L", "M",
               "N", "O", "P", "Q", "R", "S", "T", "U", "V", "W", "X", "Y", "Z">>
LowerCase == <<"a", "b", "c", "d", "e", "f", "g", "h", "i", "j", "k", "l", "m",
               "n", "o", "p", "q", "r", "s", "t", "u", "v", "w", "x", "y", "z">>

\* Faulty variant of lower: the string is left as it is
lower_is_identity(str) == str

\* str.lower()
lower(str) ==
    [i \in 1..Len(str) |->
        IF \E k \in 1..26 : UpperCase[k] = str[i]
        THEN LowerCase[CHOOSE k \in 1..26 : UpperCase[k] = str[i]]
        ELSE str[i]]

IsSpace(c) == c \in {" ", "\t", "\n", "\r"}

\* str.strip(): without its leading and trailing whitespace
RECURSIVE lstrip(_)
lstrip(str) == IF str # <<>> /\ IsSpace(Head(str)) THEN lstrip(Tail(str)) ELSE str
RECURSIVE rstrip(_)
rstrip(str) ==
    IF str # <<>> /\ IsSpace(str[Len(str)]) THEN rstrip(SubSeq(str, 1, Len(str) - 1)) ELSE str
strip(str) == rstrip(lstrip(str))

\* A str field of MLSRawListing (Optional[str], str_strip_whitespace=True): None
\* when the record has no such key, else the value stripped
StrField(raw, name) == IF name \in DOMAIN raw /\ raw[name] # Absent THEN strip(raw[name]) ELSE Absent

\* NormalizedListing._normalize_property_type: type_mapping
type_mapping ==
    <<"s", "i", "n", "g", "l", "e", " ", "f", "a", "m", "i", "l", "y">> :> "SINGLE_FAMILY" @@
    <<"s", "i", "n", "g", "l", "e", "-", "f", "a", "m", "i", "l", "y">> :> "SINGLE_FAMILY" @@
    <<"s", "f", "r">> :> "SINGLE_FAMILY" @@
    <<"h", "o", "u", "s", "e">> :> "SINGLE_FAMILY" @@
    <<"c", "o", "n", "d", "o">> :> "CONDO" @@
    <<"c", "o", "n", "d", "o", "m", "i", "n", "i", "u", "m">> :> "CONDO" @@
    <<"t", "o", "w", "n", "h", "o", "u", "s", "e">> :> "TOWNHOUSE" @@
    <<"t", "o", "w", "n", "h", "o", "m", "e">> :> "TOWNHOUSE" @@
    <<"m", "u", "l", "t", "i", "-", "f", "a", "m", "i", "l", "y">> :> "MULTI_FAMILY" @@
    <<"m", "u", "l", "t", "i", "f", "a", "m", "i", "l", "y">> :> "MULTI_FAMILY" @@
    <<"d", "u", "p", "l", "e", "x">> :> "MULTI_FAMILY" @@
    <<"l", "a", "n", "d">> :> "LAND" @@
    <<"l", "o", "t">> :> "LAND" @@
    <<"c", "o", "m", "m", "e", "r", "c", "i", "a", "l">> :> "COMMERCIAL"

\* NormalizedListing._normalize_status: status_mapping
status_mapping ==
    <<"a", "c", "t", "i", "v", "e">> :> "ACTIVE" @@
    <<"f", "o", "r", " ", "s", "a", "l", "e">> :> "ACTIVE" @@
    <<"p", "e", "n", "d", "i", "n", "g">> :> "PENDING" @@
    <<"u", "n", "d", "e", "r", " ", "c", "o", "n", "t", "r", "a", "c", "t">> :> "PENDING" @@
    <<"s", "o", "l", "d">> :> "SOLD" @@
    <<"c", "l", "o", "s", "e", "d">> :> "SOLD" @@
    <<"o", "f", "f", " ", "m", "a", "r", "k", "e", "t">> :> "OFF_MARKET" @@
    <<"w", "i", "t", "h", "d", "r", "a", "w", "n">> :> "WITHDRAWN" @@
    <<"c", "a", "n", "c", "e", "l", "l", "e", "d">> :> "WITHDRAWN"

\* dict.get(key, default)
get(mapping, key, default) == IF key \in DOMAIN mapping THEN mapping[key] ELSE default

\* if not raw_type: return None
\* return type_mapping.get(raw_type.lower().strip(), PropertyType.OTHER)
_normalize_property_type(raw_type) ==
    IF raw_type = Absent \/ raw_type = <<>> THEN "None"
    ELSE get(type_mapping, strip(lower(raw_type)), "OTHER")

\* if not raw_status: return None
\* return status_mapping.get(raw_status.lower().strip(), ListingStatus.ACTIVE)
_normalize_status(raw_status) ==
    IF raw_status = Absent \/ raw_status = <<>> THEN "None"
    ELSE get(status_mapping, strip(lower(raw_status)), "ACTIVE")

\* NormalizedListing.from_mls_listing(mls_listing, s3_key=s3_key)
from_mls_listing(raw, key) ==
    [mls_id |-> raw.id,
     property_type |-> _normalize_property_type(StrField(raw, "property_type")),
     status |-> _normalize_status(StrField(raw, "status")),
     raw_data_s3_key |-> key]

\* Faulty variant of TooManyErrors: the loop stops at 10% already
TenPercentStops(errors, n) == errors * 10 >= n

\* errors > len(raw_listings) * 0.1
TooManyErrors(errors, n) == errors * 10 > n

\* MLSCrawler._normalize_listings: the loop from record i on
RECURSIVE NormalizeFrom(_, _, _, _, _)
NormalizeFrom(raw, i, normalized, errors, key) ==
    IF i > Len(raw) THEN [normalized |-> normalized, errors |-> errors]
    ELSE IF MLSRawListingValid(raw[i])
         THEN NormalizeFrom(raw, i + 1,
                            Append(normalized, from_mls_listing(raw[i], key)),
                            errors, key)
         ELSE IF TooManyErrors(errors + 1, Len(raw))
              THEN [normalized |-> normalized, errors |-> errors + 1]   \* break
              ELSE NormalizeFrom(raw, i + 1, normalized, errors + 1, key)

_normalize_listings(raw, key) == NormalizeFrom(raw, 1, <<>>, 0, key)

\* listings[batch_start:batch_start + settings.batch_size], batch_start 0-based
Min(a, b) == IF a < b THEN a ELSE b

\* Faulty variant of BatchAt: the slice runs one listing into the next batch
BatchOverlaps(listings, batch_start) ==
    SubSeq(listings, batch_start + 1, Min(batch_start + batch_size + 1, Len(listings)))

BatchAt(listings, batch_start) ==
    SubSeq(listings, batch_start + 1, Min(batch_start + batch_size, Len(listings)))

----------------------------------------------------------------------------
(* Persistence: MLSCrawler._save_to_database over the listings table *)

\* select(Listing).where(Listing.mls_id == listing.mls_id): the rows the
\* session sees (committed rows and its own flushed writes)
ExistingListing(rows, mls_id) == {x \in rows : x.mls_id = mls_id}

\* UniqueConstraint("mls_id", name="uq_listings_mls_id")
ViolatesUnique(rows, mls_id) == \E x \in rows : x.mls_id = mls_id

\* Faulty variant of UpdateListing: the update leaves updated_at as it was
UpdateKeepsTimestamp(rows, listing, now) == rows

\* Faulty variant of UpdateListing: the update makes the row active again
UpdateReactivates(rows, listing, now) ==
    {IF x.mls_id = listing.mls_id
     THEN [x EXCEPT !.updated_at = now, !.is_active = TRUE, !.deleted_at = FALSE]
     ELSE x : x \in rows}

\* update(Listing).where(Listing.mls_id == listing.mls_id).values(**update_data):
\* update_data carries the listing's values and updated_at, not raw_data_s3_key
UpdateListing(rows, listing, now) ==
    {IF x.mls_id = listing.mls_id THEN [x EXCEPT !.updated_at = now] ELSE x : x \in rows}

\* Listing(mls_id=..., raw_data_s3_key=...): id is a fresh uuid4, created_at and
\* updated_at are server_default now(), is_active defaults to True, deleted_at
\* is NULL
NewListing(id, listing, now) ==
    [id |-> id, mls_id |-> listing.mls_id, raw_data_s3_key |-> listing.raw_data_s3_key,
     created_at |-> now, updated_at |-> now, is_active |-> TRUE, deleted_at |-> FALSE]

\* Soft delete (Listing.is_active, Listing.deleted_at): the row stays, marked
\* inactive with the time of the deletion
SoftDeleted(x) == [x EXCEPT !.is_active = FALSE, !.deleted_at = TRUE]

\* The body of one batch from listing i on. failAt = i: the statement of
\* listing i raises; failAt = Len(batch) + 1: db.commit() raises; failAt = 0:
\* the database raises nothing. count is what the batch adds to saved_count
\* (incremented after each listing, inside the try).
RECURSIVE SaveFrom(_, _, _, _, _, _)
SaveFrom(batch, i, rows, failAt, now, idbase) ==
    IF i > Len(batch)
    THEN [rows |-> rows, count |-> Len(batch), committed |-> failAt # Len(batch) + 1]
    ELSE IF failAt = i
    THEN [rows |-> rows, count |-> i - 1, committed |-> FALSE]
    ELSE IF ExistingListing(rows, batch[i].mls_id) # {}
    THEN SaveFrom(batch, i + 1, UpdateListing(rows, batch[i], now), failAt, now, idbase)
    ELSE IF ViolatesUnique(rows, batch[i].mls_id)
    THEN [rows |-> rows, count |-> i, committed |-> FALSE]      \* IntegrityError
    ELSE SaveFrom(batch, i + 1, rows \cup {NewListing(<<idbase, i>>, batch[i], now)},
                  failAt, now, idbase)

SaveBatchResult(batch, rows, failAt, now, idbase) ==
    SaveFrom(batch, 1, rows, failAt, now, idbase)

----------------------------------------------------------------------------
(* Search index: OpenSearchClient.bulk_index_listings *)

\* bulk_ops.append({'index': {'_index': self.index_name, '_id': listing.mls_id}})
DocId(listing) == listing.mls_id

\* Faulty variant of IndexDocument: the operation carries no _id, and the
\* index gives every document an id of its own
IndexWithoutId(docs, id, listing) ==
    docs \cup {[_id |-> NumIds + Cardinality(docs) + 1, mls_id |-> listing.mls_id]}

\* The index operation of OpenSearch: the document with that _id is replaced,
\* or created when there is none
IndexDocument(docs, id, listing) ==
    {d \in docs : d._id # id} \cup {[_id |-> id, mls_id |-> listing.mls_id]}

\* The index once the operations of the bulk body up to i have been applied
\* in order (those of `failing` are rejected)
RECURSIVE DocsAfterItems(_, _, _, _)
DocsAfterItems(batch, docs, failing, i) ==
    IF i = 0 THEN docs
    ELSE LET before == DocsAfterItems(batch, docs, failing, i - 1)
         IN  IF i \in failing THEN before
             ELSE IndexDocument(before, DocId(batch[i]), batch[i])

\* One response item per index operation of the bulk body: 201 created, 200
\* updated an existing document, 400 for a rejected item.
ItemStatus(batch, docs, failing, i) ==
    IF i \in failing THEN 400
    ELSE IF \E d \in DocsAfterItems(batch, docs, failing, i - 1) : d._id = DocId(batch[i])
         THEN 200
         ELSE 201

BulkResponse(batch, docs, failing) ==
    [i \in 1..Len(batch) |->
        [_id |-> DocId(batch[i]),
         status |-> ItemStatus(batch, docs, failing, i),
         has_error |-> i \in failing]]

\* Faulty variant of ItemIndexed: 201 Created is not taken as a success
OnlyStatus200(item) == item.status = 200

\* index_result.get('status') in [200, 201]
ItemIndexed(item) == item.status \in {200, 201}

\* OpenSearchClient._process_bulk_response: the loop over response['items']
RECURSIVE ProcessItems(_, _, _)
ProcessItems(items, i, stats) ==
    IF i > Len(items) THEN stats
    ELSE IF ItemIndexed(items[i])
         THEN ProcessItems(items, i + 1, [stats EXCEPT !.indexed = @ + 1])
         ELSE ProcessItems(items, i + 1,
                  [stats EXCEPT !.failed = @ + 1,
                                !.errors = IF items[i].has_error
                                           THEN Append(@, items[i]._id) ELSE @])

_process_bulk_response(items) ==
    ProcessItems(items, 1, [indexed |-> 0, failed |-> 0, errors |-> <<>>])

\* Faulty variant of BulkOperationFailed: a bulk call that raises counts no
\* listing as failed
NothingCounted(batch) == [indexed |-> 0, failed |-> 0, errors |-> <<0>>]

\* except Exception of bulk_index_listings:
\* return {'indexed': 0, 'failed': len(listings), 'errors': [{...}]}
BulkOperationFailed(batch) == [indexed |-> 0, failed |-> Len(batch), errors |-> <<0>>]

\* bulk_index_listings(batch): transport = TRUE when async_client.bulk raises
bulk_index_listings(batch, docs, failing, transport) ==
    IF batch = <<>> THEN [indexed |-> 0, failed |-> 0, errors |-> <<>>]
    ELSE IF transport
         THEN BulkOperationFailed(batch)
         ELSE _process_bulk_response(BulkResponse(batch, docs, failing))

\* The documents of the index after the bulk write
DocsAfterBulk(batch, docs, failing, transport) ==
    IF transport THEN docs
    ELSE DocsAfterItems(batch, docs, failing, Len(batch))

----------------------------------------------------------------------------
(* State *)

VARIABLES
    run,            \* run r: the task executing run_crawl_job, its locals
    nruns,          \* runs started so far
    crawl_jobs,     \* table crawl_jobs: a set of rows
    listings,       \* table listings: a set of rows
    s3,             \* bucket: a set of objects
    index_docs,     \* the documents of the search index: _id and the mls_id
                    \* of the source
    clock,          \* database time (func.now(), datetime.now)
    db_initialized, \* DatabaseManager._initialized of each process
    running,        \* CrawlerScheduler.running
    current_task,   \* CrawlerScheduler.current_task
    cron_last,      \* the fire time self.cron last returned (fire time k is time k)
    loop,           \* loop l: the coroutine _run_scheduler_loop of the l-th start()
    nstarts,        \* calls of start() that started a loop
    now             \* wall-clock time in cron periods

vars == <<run, nruns, crawl_jobs, listings, s3, index_docs, clock, db_initialized,
          running, current_task, cron_last, loop, nstarts, now>>

storeVars == <<crawl_jobs, listings, s3, index_docs, clock>>
schedVars == <<running, current_task, cron_last, loop, nstarts, now>>

\* CrawlJobStatus(job_id=job_id, status="running", started_at=...)
NewJobStatus ==
    [status |-> "running", completed_at |-> FALSE,
     total_fetched |-> 0, total_processed |-> 0, total_saved |-> 0,
     total_indexed |-> 0, total_errors |-> 0,
     error_message |-> "none",  \* None, or "str(e)"
     error_type |-> "none"]     \* error_details: None, or its 'error_type'

\* A task that has not been created
IdleRun ==
    [pc |-> "idle", origin |-> "none", loop |-> None,
     job_id |-> None,           \* job_status.job_id
     must_cancel |-> FALSE,     \* task.cancel() was called, CancelledError not yet thrown
     cancelling |-> FALSE,      \* CancelledError is in flight through the finally block
     attempt |-> 0,             \* the retry loop's attempt
     slept |-> <<>>,            \* the delays the retry loop of the stage has
                                \* slept, in order
     response |-> NoResponse,   \* the body the fetch returned from, until the
                                \* next stage begins
     stages |-> <<>>,           \* the stages that have returned, in order
     job_status |-> NewJobStatus,
     raw_listings |-> <<>>, s3_key |-> NoKey, normalized |-> <<>>,
     batch_start |-> 0,
     count |-> 0,               \* saved_count, then total_indexed of _index_in_opensearch
     save_log |-> <<>>,         \* per persistence batch: the batch, its size, the
                                \* count it added, whether it committed
     bulk_log |-> <<>>,         \* per bulk write: the batch, M, K and the stats
                                \* returned
     refresh_log |-> <<>>]      \* per call of refresh_index: whether it succeeded

StartedRun(origin, l, job_id) ==
    [IdleRun EXCEPT !.pc = "init", !.origin = origin, !.loop = l, !.job_id = job_id]

Terminal == {"done", "raised", "cancelled"}
Active(r) == run[r].pc \notin (Terminal \cup {"idle"})

\* The process a run executes in: the scheduler and the API are two programs
Process(r) == IF run[r].origin = "scheduled" THEN "scheduler" ELSE "api"

\* except Exception as e: of run_crawl_job
Failed(js, etype) ==
    [js EXCEPT !.status = "failed", !.completed_at = TRUE,
               !.error_message = "str(e)", !.error_type = etype]

\* CrawlJob(job_id=..., status=..., started_at=..., config_snapshot=...)
\* run is the run whose _create_job_record inserted the row.
NewJobRow(r, job_id, js) ==
    [job_id |-> job_id, run |-> r, status |-> js.status, config_snapshot |-> TRUE,
     completed_at |-> FALSE, total_fetched |-> 0, total_processed |-> 0,
     total_saved |-> 0, total_indexed |-> 0, total_errors |-> 0,
     error_message |-> "none", error_type |-> "none"]

\* update(CrawlJob).where(CrawlJob.job_id == job_status.job_id).values(...)
UpdateJobRows(rows, job_id, js) ==
    {IF x.job_id = job_id
     THEN [x EXCEPT !.status = js.status, !.completed_at = js.completed_at,
                    !.total_fetched = js.total_fetched,
                    !.total_processed = js.total_processed,
                    !.total_saved = js.total_saved,
                    !.total_indexed = js.total_indexed,
                    !.total_errors = js.total_errors,
                    !.error_message = js.error_message,
                    !.error_type = js.error_type]
     ELSE x : x \in rows}

Init ==
    /\ run = [r \in Runs |-> IdleRun]
    /\ nruns = 0
    /\ crawl_jobs = {}
    /\ listings = {}
    /\ s3 = {}
    /\ index_docs = {}
    /\ clock = 0
    \* main.py startup_event initializes the database before requests are served;
    \* scheduler.py initializes nothing before its first run
    /\ db_initialized = [p \in {"api", "scheduler"} |-> p = "api"]
    /\ running = FALSE
    /\ current_task = None
    /\ cron_last = 0
    /\ loop = [l \in Loops |-> [pc |-> "off", task |-> None, next_run |-> 0]]
    /\ nstarts = 0
    /\ now = 0

----------------------------------------------------------------------------
(* main.py: POST /crawl *)

\* trigger_crawl: job_status = await mls_crawler.run_crawl_job(), with no check
\* of a run in progress. clients bounds the requests outstanding at a time.
TriggerCrawl(clients) ==
    /\ nruns < MaxRuns
    /\ Cardinality({r \in Runs : Active(r) /\ run[r].origin = "manual"}) < clients
    /\ run' = [run EXCEPT ![nruns + 1] = StartedRun("manual", None, nruns + 1)]
    /\ nruns' = nruns + 1
    /\ UNCHANGED <<storeVars, db_initialized, schedVars>>

\* job_id = f"crawl_{now:%Y%m%d_%H%M%S}_{uuid.uuid4().hex[:8]}": a request in
\* the second of an earlier run's start whose 32 random bits repeat that run's
\* draw is given that run's job_id
TriggerCrawlSameJobId(clients) ==
    /\ nruns < MaxRuns
    /\ Cardinality({r \in Runs : Active(r) /\ run[r].origin = "manual"}) < clients
    /\ \E q \in 1..nruns :
          run' = [run EXCEPT ![nruns + 1] = StartedRun("manual", None, run[q].job_id)]
    /\ nruns' = nruns + 1
    /\ UNCHANGED <<storeVars, db_initialized, schedVars>>

----------------------------------------------------------------------------
(* mls_crawler.py: run_crawl_job *)

\* _initialize_services: db_manager.initialize() unless initialized, then
\* opensearch_client.initialize_index(), which returns False and never raises
InitializeServices(r) ==
    /\ run[r].pc = "init" /\ ~run[r].must_cancel
    /\ db_initialized' = [db_initialized EXCEPT ![Process(r)] = TRUE]
    /\ run' = [run EXCEPT ![r].pc = "create"]
    /\ UNCHANGED <<nruns, storeVars, schedVars>>

\* db_manager.initialize() raises: caught by except Exception
InitializeServicesFails(r) ==
    /\ run[r].pc = "init" /\ ~run[r].must_cancel
    /\ ~db_initialized[Process(r)]
    /\ run' = [run EXCEPT ![r].pc = "final",
                          ![r].job_status = Failed(@, "DatabaseError")]
    /\ UNCHANGED <<nruns, storeVars, db_initialized, schedVars>>

\* _create_job_record: db.add(job_record); await db.commit(). job_id is
\* unique=True: the commit succeeds only when no row has this job_id
CreateJobRecord(r) ==
    /\ run[r].pc = "create" /\ ~run[r].must_cancel
    /\ ~\E x \in crawl_jobs : x.job_id = run[r].job_id
    /\ crawl_jobs' = crawl_jobs \cup {NewJobRow(r, run[r].job_id, run[r].job_status)}
    /\ run' = [run EXCEPT ![r].pc = "fetch"]
    /\ UNCHANGED <<nruns, listings, s3, index_docs, clock, db_initialized, schedVars>>

\* the commit of _create_job_record raises
CreateJobRecordFails(r) ==
    /\ run[r].pc = "create" /\ ~run[r].must_cancel
    /\ run' = [run EXCEPT ![r].pc = "final",
                          ![r].job_status = Failed(@, "DatabaseError")]
    /\ UNCHANGED <<nruns, storeVars, db_initialized, schedVars>>

\* Faulty variant of AfterFetch: the archive stage is skipped
SkipsArchive(raw_listings) == IF raw_listings = <<>> THEN "final" ELSE "normalize"

\* Where run_crawl_job goes when _fetch_mls_data has returned:
\* if not raw_listings: ... return job_status (the finally block), else step 2
AfterFetch(raw_listings) == IF raw_listings = <<>> THEN "final" ELSE "archive"

\* Step 1, an attempt of _fetch_mls_data that succeeds with a body of bodies;
\* job_status.total_fetched = len(raw_listings); the empty sequence returns
\* early, completed
FetchMlsData(r, bodies) ==
    /\ run[r].pc = "fetch" /\ ~run[r].must_cancel
    /\ \E data \in bodies :
          LET b == ExtractListings(data) IN
          run' = [run EXCEPT
                    ![r].response = data,
                    ![r].raw_listings = b,
                    ![r].attempt = 0,
                    ![r].slept = <<>>,
                    ![r].stages = Append(@, "fetch"),
                    ![r].job_status =
                        IF b = <<>>
                        THEN [@ EXCEPT !.total_fetched = Len(b), !.status = "completed",
                                       !.completed_at = TRUE]
                        ELSE [@ EXCEPT !.total_fetched = Len(b)],
                    ![r].pc = AfterFetch(b)]
    /\ UNCHANGED <<nruns, storeVars, db_initialized, schedVars>>

\* an attempt of _fetch_mls_data that raises: sleep and retry, or re-raise on
\* the last attempt
FetchMlsDataFails(r) ==
    /\ run[r].pc = "fetch" /\ ~run[r].must_cancel
    /\ run' = IF ~IsLastAttempt(run[r].attempt)
              THEN [run EXCEPT ![r].attempt = @ + 1,
                               ![r].slept = Append(@, BackoffDelay(run[r].attempt))]
              ELSE [run EXCEPT ![r].attempt = 0, ![r].pc = "final",
                               ![r].job_status = Failed(@, "HTTPError")]
    /\ UNCHANGED <<nruns, storeVars, db_initialized, schedVars>>

\* _fetch_mls_data when settings.mls_retry_attempts is configured as attempts
\* and range(attempts) is empty: the loop body is not entered, no request is
\* made and the function ends with `return []`; run_crawl_job takes the empty
\* list as an empty fetch
FetchMlsDataNoAttempt(r, attempts) ==
    /\ run[r].pc = "fetch" /\ ~run[r].must_cancel
    /\ attempts <= 0
    /\ run' = [run EXCEPT
                 ![r].raw_listings = <<>>,
                 ![r].stages = Append(@, "fetch"),
                 ![r].job_status = [@ EXCEPT !.total_fetched = 0, !.status = "completed",
                                             !.completed_at = TRUE],
                 ![r].pc = AfterFetch(<<>>)]
    /\ UNCHANGED <<nruns, storeVars, db_initialized, schedVars>>

\* S3Manager._generate_s3_key:
\* <prefix>/YYYY/MM/DD/HH/YYYYMMDD_HHMMSS_<uuid4().hex[:8]>.json
\* The key is a function of the timestamp and of the random suffix.
_generate_s3_key(timestamp, suffix) == [timestamp |-> timestamp, suffix |-> suffix]

\* The keys store_raw_data has generated and not given up
KeysInUse == ({run[q].s3_key : q \in Runs} \cup {o.key : o \in s3}) \ {NoKey}

\* The latest second a key was generated in. Seconds are numbered by rank:
\* second k is the k-th second in which store_raw_data generated a key.
LatestSecond ==
    IF KeysInUse = {} THEN 0
    ELSE CHOOSE t \in {k.timestamp : k \in KeysInUse} :
            \A k \in KeysInUse : k.timestamp <= t

\* timestamp = datetime.now(timezone.utc), which strftime('%Y%m%d_%H%M%S') cuts
\* to the second: the second the latest key was generated in (same_second), or
\* a later one
TimestampNow(same_second) ==
    IF same_second /\ LatestSecond > 0 THEN {LatestSecond} ELSE {LatestSecond + 1}

\* uuid.uuid4().hex[:8]: 32 random bits. The draw either equals the suffix of a
\* key generated with the same timestamp or it does not; the draws that equal
\* none of them are alike, and the least unused number stands for them.
uuid4_hex8(timestamp) ==
    LET used == {k.suffix : k \in {u \in KeysInUse : u.timestamp = timestamp}}
    IN  used \cup {Cardinality(used) + 1}

\* Faulty variant of ArchiveKeys: every upload attempt generates its key
KeyPerAttempt(r, same_second) ==
    UNION {{_generate_s3_key(timestamp, suffix) : suffix \in uuid4_hex8(timestamp)} :
              timestamp \in TimestampNow(same_second)}

\* store_raw_data: timestamp = datetime.now(timezone.utc);
\* key = self._generate_s3_key(timestamp), once, before the first upload
\* attempt; the retries of _upload_with_retry use the same key
ArchiveKeys(r, same_second) ==
    IF run[r].attempt = 0
    THEN UNION {{_generate_s3_key(timestamp, suffix) : suffix \in uuid4_hex8(timestamp)} :
                    timestamp \in TimestampNow(same_second)}
    ELSE {run[r].s3_key}

\* Faulty variant of UploadDelay: the wait is the same after every attempt
UploadDelayFixed(attempt) == upload_retry_delay

\* _upload_with_retry: asyncio.sleep(retry_delay * (2 ** attempt))
UploadDelay(attempt) == upload_retry_delay * (2 ^ attempt)

\* _upload_with_retry: not (attempt < max_retries - 1), the else branch, raise
IsLastUpload(attempt) == ~(attempt < upload_max_retries - 1)

\* self.client.put_object(Bucket, Key, Body, ...): writes the object under Key,
\* replacing the object that is there
put_object(objects, obj) == {o \in objects : o.key # obj.key} \cup {obj}

\* Step 2, _store_raw_data: a put_object that succeeds; store_raw_data returns
\* the key. writer stands for the body: the records of run r.
StoreRawData(r, same_second) ==
    /\ run[r].pc = "archive" /\ ~(run[r].must_cancel /\ run[r].attempt > 0)
    /\ \E key \in ArchiveKeys(r, same_second) :
          /\ s3' = put_object(s3, [key |-> key, writer |-> r,
                                   record_count |-> Len(run[r].raw_listings)])
          /\ run' = [run EXCEPT ![r].s3_key = key, ![r].attempt = 0,
                                ![r].response = NoResponse,
                                ![r].stages = Append(@, "archive"),
                                ![r].pc = "normalize"]
    /\ UNCHANGED <<nruns, crawl_jobs, listings, index_docs, clock, db_initialized,
                   schedVars>>

\* a put_object that raises: _upload_with_retry sleeps and retries, or re-raises
StoreRawDataFails(r, same_second) ==
    /\ run[r].pc = "archive" /\ ~(run[r].must_cancel /\ run[r].attempt > 0)
    /\ \E key \in ArchiveKeys(r, same_second) :
          run' = IF ~IsLastUpload(run[r].attempt)
                 THEN [run EXCEPT ![r].attempt = @ + 1, ![r].s3_key = key,
                                  ![r].slept = Append(@, UploadDelay(run[r].attempt)),
                                  ![r].response = NoResponse]
                 ELSE [run EXCEPT ![r].attempt = 0, ![r].pc = "final",
                                  ![r].s3_key = NoKey,
                                  ![r].response = NoResponse,
                                  ![r].job_status = Failed(@, "ClientError")]
    /\ UNCHANGED <<nruns, storeVars, db_initialized, schedVars>>

\* Step 3: normalized_listings = await self._normalize_listings(raw_listings, s3_key)
\* job_status.total_processed = len(normalized_listings); _save_to_database begins
NormalizeListings(r) ==
    /\ run[r].pc = "normalize"
    /\ LET res == _normalize_listings(run[r].raw_listings, run[r].s3_key)
       IN  run' = [run EXCEPT
                     ![r].normalized = res.normalized,
                     ![r].job_status = [@ EXCEPT !.total_processed = Len(res.normalized)],
                     ![r].batch_start = 0, ![r].count = 0, ![r].slept = <<>>,
                     ![r].stages = Append(@, "normalize"),
                     ![r].pc = "save"]
    /\ UNCHANGED <<nruns, storeVars, db_initialized, schedVars>>

\* Faulty variant of SavedCountAfterBatch: a committed batch is counted by its
\* statements and again by its length
CountsCommittedTwice(saved_count, res) ==
    saved_count + res.count + (IF res.committed THEN res.count ELSE 0)

\* What one iteration of the batch loop of _save_to_database adds to
\* saved_count: saved_count += 1 after each listing, inside the try; the
\* except branch rolls the session back and leaves saved_count as it is
SavedCountAfterBatch(saved_count, res) == saved_count + res.count

\* Faulty variant of AfterBatch: the writes of a batch that failed stay
RollbackKeepsWrites(rows, res) == res.rows

\* The listings table after one batch: await db.commit() makes the writes of
\* the batch visible; await db.rollback() in the except branch discards them
AfterBatch(rows, res) == IF res.committed THEN res.rows ELSE rows

\* Step 4, one batch of _save_to_database: the statements of the batch and
\* db.commit(), or db.rollback() when one of them raises
SaveBatch(r) ==
    /\ run[r].pc = "save" /\ ~run[r].must_cancel
    /\ run[r].batch_start < Len(run[r].normalized)
    /\ LET batch == BatchAt(run[r].normalized, run[r].batch_start)
       IN  \E failAt \in 0..(Len(batch) + 1) :
             LET res == SaveBatchResult(batch, listings, failAt, clock + 1,
                                        <<r, run[r].batch_start>>)
             IN  /\ listings' = AfterBatch(listings, res)
                 /\ clock' = IF res.committed THEN clock + 1 ELSE clock
                 /\ run' = [run EXCEPT
                              ![r].count = SavedCountAfterBatch(@, res),
                              ![r].batch_start = @ + batch_size,
                              ![r].save_log = Append(@, [batch |-> batch,
                                                         size |-> Len(batch),
                                                         count |-> res.count,
                                                         committed |-> res.committed])]
    /\ UNCHANGED <<nruns, crawl_jobs, s3, index_docs, db_initialized, schedVars>>

\* _save_to_database returns saved_count; job_status.total_saved = saved_count;
\* _index_in_opensearch begins (initialize_index never raises)
SaveReturn(r) ==
    /\ run[r].pc = "save" /\ ~run[r].must_cancel
    /\ run[r].batch_start >= Len(run[r].normalized)
    /\ run' = [run EXCEPT
                 ![r].job_status = [@ EXCEPT !.total_saved = run[r].count],
                 ![r].batch_start = 0, ![r].count = 0,
                 ![r].stages = Append(@, "persist"),
                 ![r].pc = "index"]
    /\ UNCHANGED <<nruns, storeVars, db_initialized, schedVars>>

\* Step 5, one batch of _index_in_opensearch:
\* stats = await opensearch_client.bulk_index_listings(batch);
\* total_indexed += stats['indexed']
IndexBatch(r) ==
    /\ run[r].pc = "index" /\ ~run[r].must_cancel
    /\ run[r].batch_start < Len(run[r].normalized)
    /\ LET batch == BatchAt(run[r].normalized, run[r].batch_start)
       IN  \E transport \in BOOLEAN, failing \in SUBSET (1..Len(batch)) :
             /\ transport => failing = {}
             /\ LET stats == bulk_index_listings(batch, index_docs, failing, transport)
                IN  /\ index_docs' = DocsAfterBulk(batch, index_docs, failing, transport)
                    /\ run' = [run EXCEPT
                                 ![r].count = @ + stats.indexed,
                                 ![r].batch_start = @ + batch_size,
                                 ![r].bulk_log =
                                     Append(@, [batch |-> batch,
                                                m |-> Len(batch),
                                                k |-> Cardinality(failing),
                                                transport |-> transport,
                                                stats |-> stats])]
    /\ UNCHANGED <<nruns, crawl_jobs, listings, s3, clock, db_initialized, schedVars>>

\* Faulty variant of AfterRefresh: a refresh that fails fails the run
RefreshFailureIsFatal(js, total_indexed, refreshed) ==
    IF refreshed
    THEN [js EXCEPT !.total_indexed = total_indexed, !.status = "completed",
                    !.completed_at = TRUE]
    ELSE Failed(js, "TransportError")

\* The job status once refresh_index() has returned, refreshed or not (its
\* except Exception logs and returns): indexed_count = total_indexed of
\* _index_in_opensearch, job_status.total_indexed = indexed_count,
\* job_status.status = "completed"
AfterRefresh(js, total_indexed, refreshed) ==
    [js EXCEPT !.total_indexed = total_indexed, !.status = "completed",
               !.completed_at = TRUE]

\* The batch loop of _index_in_opensearch is over: await refresh_index(), which
\* succeeds or fails; return total_indexed; the run is completed
IndexReturn(r) ==
    /\ run[r].pc = "index" /\ ~run[r].must_cancel
    /\ run[r].batch_start >= Len(run[r].normalized)
    /\ \E refreshed \in BOOLEAN :
          run' = [run EXCEPT
                    ![r].job_status = AfterRefresh(@, run[r].count, refreshed),
                    ![r].refresh_log = Append(@, refreshed),
                    ![r].stages = Append(@, "index"),
                    ![r].pc = "final"]
    /\ UNCHANGED <<nruns, storeVars, db_initialized, schedVars>>

\* The task is over: what is left of it is how it ended, the job_status it
\* returned and the archive key it was given; the other locals of
\* run_crawl_job are gone
Ended(r, how) ==
    [IdleRun EXCEPT !.pc = how, !.origin = run[r].origin, !.loop = run[r].loop,
                    !.job_id = run[r].job_id,
                    !.job_status = run[r].job_status, !.s3_key = run[r].s3_key]

\* How the task ends once the finally block is through: the CancelledError in
\* flight is re-raised, otherwise run_crawl_job returns job_status
Finished(r) == Ended(r, IF run[r].cancelling THEN "cancelled" ELSE "done")

\* finally: async with db_manager.get_session() as db:
\*              await self._update_job_record(db, job_status)
UpdateJobRecord(r) ==
    /\ run[r].pc = "final" /\ ~run[r].must_cancel
    /\ db_initialized[Process(r)]
    /\ crawl_jobs' = UpdateJobRows(crawl_jobs, run[r].job_id, run[r].job_status)
    /\ run' = [run EXCEPT ![r] = Finished(r)]
    /\ UNCHANGED <<nruns, listings, s3, index_docs, clock, db_initialized, schedVars>>

\* the update raises: _update_job_record logs it and returns
UpdateJobRecordFails(r) ==
    /\ run[r].pc = "final" /\ ~run[r].must_cancel
    /\ db_initialized[Process(r)]
    /\ run' = [run EXCEPT ![r] = Finished(r)]
    /\ UNCHANGED <<nruns, storeVars, db_initialized, schedVars>>

\* get_session in the finally block when the database is not initialized:
\* initialize() succeeds and the update follows
UpdateJobRecordInitializes(r) ==
    /\ run[r].pc = "final" /\ ~run[r].must_cancel
    /\ ~db_initialized[Process(r)]
    /\ db_initialized' = [db_initialized EXCEPT ![Process(r)] = TRUE]
    /\ crawl_jobs' = UpdateJobRows(crawl_jobs, run[r].job_id, run[r].job_status)
    /\ run' = [run EXCEPT ![r] = Finished(r)]
    /\ UNCHANGED <<nruns, listings, s3, index_docs, clock, schedVars>>

\* ... or initialize() raises again, out of the finally block and of run_crawl_job
UpdateJobRecordRaises(r) ==
    /\ run[r].pc = "final" /\ ~run[r].must_cancel
    /\ ~db_initialized[Process(r)]
    /\ run' = [run EXCEPT ![r] = Ended(r, "raised")]
    /\ UNCHANGED <<nruns, storeVars, db_initialized, schedVars>>

\* The awaits a CancelledError can be thrown into
CancelPoint(r) ==
    \/ run[r].pc \in {"init", "create", "fetch", "save", "index", "final"}
    \/ run[r].pc = "archive" /\ run[r].attempt > 0

\* The task resumes with CancelledError. It is a BaseException: except Exception
\* does not catch it, job_status stays as it is, the try block is left (its
\* locals are not used again) and the finally block runs. Thrown into the
\* finally block itself, it ends the task before the update is made.
DeliverCancel(r) ==
    /\ run[r].must_cancel /\ CancelPoint(r)
    /\ run' = IF run[r].pc = "final"
              THEN [run EXCEPT ![r] = Ended(r, "cancelled")]
              ELSE [run EXCEPT ![r] =
                        [Ended(r, "final") EXCEPT
                           !.cancelling = TRUE,
                           !.s3_key = IF run[r].pc = "archive" THEN NoKey ELSE @]]
    /\ UNCHANGED <<nruns, storeVars, db_initialized, schedVars>>

----------------------------------------------------------------------------
(* scheduler.py: CrawlerScheduler *)

\* The loop leaves `while self.running` (or breaks); start()'s finally block
\* sets self.running = False
ExitedLoop(l) == [loop[l] EXCEPT !.pc = "exited", !.task = None]

\* The head of the loop: while self.running: next_run = self.cron.get_next(datetime);
\* sleep until then. first is the fire time get_next returns.
LoopHead(l, first) == [pc |-> "sleeping", task |-> None, next_run |-> first]

\* start(): returns at once when running; else running = True, logs
\* self.cron.get_next(datetime) and enters the loop
\* starts bounds the calls that start a loop.
Start(starts) ==
    /\ ~running
    /\ nstarts < starts
    /\ nstarts' = nstarts + 1
    /\ running' = TRUE
    /\ cron_last' = cron_last + 2
    /\ loop' = [loop EXCEPT ![nstarts + 1] = LoopHead(nstarts + 1, cron_last + 2)]
    /\ UNCHANGED <<run, nruns, storeVars, db_initialized, current_task, now>>

\* Faulty variant of StopsAfterSleep: the loop does not look at self.running
\* after its sleep
NeverStopsAfterSleep == FALSE

\* if not self.running: break, after the sleep
StopsAfterSleep == ~running

\* Faulty variant of AfterCreateTask: the loop goes back to sleep without
\* awaiting the task it created
SleepsAfterCreateTask == "sleeping"

\* Where the loop is after asyncio.create_task(run_crawl_job()):
\* job_status = await self.current_task
AfterCreateTask == "awaiting"

\* The sleep is over (or sleep_duration <= 0): the loop stops, or
\* _execute_scheduled_crawl creates the crawl task and awaits it
LoopWake(l) ==
    /\ loop[l].pc = "sleeping"
    /\ now >= loop[l].next_run
    /\ IF StopsAfterSleep
       THEN /\ loop' = [loop EXCEPT ![l] = ExitedLoop(l)]
            /\ running' = FALSE
            /\ UNCHANGED <<run, nruns, current_task>>
       ELSE /\ nruns < MaxRuns
            /\ run' = [run EXCEPT ![nruns + 1] = StartedRun("scheduled", l, nruns + 1)]
            /\ nruns' = nruns + 1
            /\ current_task' = nruns + 1
            /\ loop' = [loop EXCEPT ![l].pc = AfterCreateTask, ![l].task = nruns + 1]
            /\ UNCHANGED running
    /\ UNCHANGED <<storeVars, db_initialized, cron_last, nstarts, now>>

\* Faulty variant of BreaksLoop: an exception of the task ends the loop too
ExceptionBreaksLoop(result) == result \in {"cancelled", "raised"}

\* How the awaited task ended decides whether the loop goes on: CancelledError
\* is re-raised by _execute_scheduled_crawl and the loop breaks on it; any
\* other exception is logged ("Don't raise - let scheduler continue")
BreaksLoop(result) == result = "cancelled"

\* await self.current_task is over. The task returned: self.cron.get_next(),
\* current_task = None, back to the head of the loop. The task raised: logged,
\* current_task = None, back to the head. The task was cancelled: CancelledError
\* is re-raised and the loop breaks.
LoopTaskDone(l) ==
    /\ loop[l].pc = "awaiting"
    /\ run[loop[l].task].pc \in Terminal
    /\ current_task' = None
    /\ LET result == run[loop[l].task].pc
           last == IF result = "done" THEN cron_last + 1 ELSE cron_last
       IN  IF BreaksLoop(result) \/ ~running
           THEN /\ loop' = [loop EXCEPT ![l] = ExitedLoop(l)]
                /\ running' = FALSE
                /\ cron_last' = last
           ELSE /\ loop' = [loop EXCEPT ![l] = LoopHead(l, last + 1)]
                /\ cron_last' = last + 1
                /\ UNCHANGED running
    /\ UNCHANGED <<run, nruns, storeVars, db_initialized, nstarts, now>>

\* stop(): self.running = False; the current task is cancelled unless done
Stop ==
    /\ running \/ (current_task # None /\ Active(current_task))
    /\ running' = FALSE
    /\ run' = IF current_task # None /\ run[current_task].pc \notin Terminal
              THEN [run EXCEPT ![current_task].must_cancel = TRUE]
              ELSE run
    /\ UNCHANGED <<nruns, storeVars, db_initialized, current_task, cron_last, loop,
                   nstarts, now>>

\* Time passes
Tick ==
    /\ now < MaxTime
    /\ now' = now + 1
    /\ UNCHANGED <<run, nruns, storeVars, db_initialized, running, current_task,
                   cron_last, loop, nstarts>>

----------------------------------------------------------------------------
(* Specifications *)

\* A step of run r that both specifications have
RunStep(r, bodies, same_second) ==
    \/ InitializeServices(r)
    \/ CreateJobRecord(r)
    \/ CreateJobRecordFails(r)
    \/ FetchMlsData(r, bodies)
    \/ FetchMlsDataFails(r)
    \/ StoreRawData(r, same_second)
    \/ StoreRawDataFails(r, same_second)
    \/ NormalizeListings(r)
    \/ SaveBatch(r)
    \/ SaveReturn(r)
    \/ IndexBatch(r)
    \/ IndexReturn(r)
    \/ UpdateJobRecord(r)
    \/ UpdateJobRecordFails(r)

\* The API process alone (settings.enable_scheduler false), one request at a
\* time, any upstream response, each archive write in a second of its own
Next ==
    \/ TriggerCrawl(1)
    \/ \E r \in Runs : RunStep(r, ResponseBodies(AllResponses), FALSE)

Spec == Init /\ [][Next]_vars

\* The scheduler process and the API process, requests overlapping, a few
\* upstream responses, the archive writes all within one second
SchedNext ==
    \/ Start(1)
    \/ Stop
    \/ Tick
    \/ TriggerCrawl(MaxRuns)
    \/ \E l \in Loops : LoopWake(l) \/ LoopTaskDone(l)
    \/ \E r \in Runs :
          \/ RunStep(r, ArrayBodies(FewResponses), TRUE)
          \/ InitializeServicesFails(r)
          \/ UpdateJobRecordInitializes(r)
          \/ UpdateJobRecordRaises(r)
          \/ DeliverCancel(r)

SchedSpec == Init /\ [][SchedNext]_vars

\* One CrawlerScheduler whose start() and stop() are called in any order, start()
\* again after stop() included; no POST /crawl
RestartNext ==
    \/ Start(MaxStarts)
    \/ Stop
    \/ Tick
    \/ \E l \in Loops : LoopWake(l) \/ LoopTaskDone(l)
    \/ \E r \in Runs :
          \/ RunStep(r, ArrayBodies(FewResponses), TRUE)
          \/ InitializeServicesFails(r)
          \/ UpdateJobRecordInitializes(r)
          \/ UpdateJobRecordRaises(r)
          \/ DeliverCancel(r)

RestartSpec == Init /\ [][RestartNext]_vars

\* The two processes with MLS_RETRY_ATTEMPTS=0 in their environment (the
\* setting is an int with no lower bound); stop() is not called
NoAttemptNext ==
    \/ Start(1)
    \/ Tick
    \/ TriggerCrawl(MaxRuns)
    \/ \E l \in Loops : LoopWake(l) \/ LoopTaskDone(l)
    \/ \E r \in Runs :
          \/ InitializeServices(r)
          \/ InitializeServicesFails(r)
          \/ CreateJobRecord(r)
          \/ CreateJobRecordFails(r)
          \/ FetchMlsDataNoAttempt(r, 0)
          \/ UpdateJobRecord(r)
          \/ UpdateJobRecordFails(r)
          \/ UpdateJobRecordInitializes(r)
          \/ UpdateJobRecordRaises(r)

NoAttemptSpec == Init /\ [][NoAttemptNext]_vars

\* A step of run r in the scheduler process
SchedulerRunStep(r) ==
    \/ RunStep(r, ArrayBodies(FewResponses), TRUE)
    \/ InitializeServicesFails(r)
    \/ UpdateJobRecordInitializes(r)
    \/ UpdateJobRecordRaises(r)

\* The scheduler process when stop() is never called: start() once, no signal
LiveNext ==
    \/ Start(1)
    \/ Tick
    \/ \E l \in Loops : LoopWake(l) \/ LoopTaskDone(l)
    \/ \E r \in Runs : SchedulerRunStep(r)

\* The event loop resumes every coroutine that can go on (a loop whose sleep or
\* whose task is over, a run whose await has an outcome), and time passes
LiveSpec ==
    /\ Init /\ [][LiveNext]_vars
    /\ WF_vars(Tick)
    /\ \A l \in Loops : WF_vars(LoopWake(l)) /\ WF_vars(LoopTaskDone(l))
    /\ \A r \in Runs : WF_vars(SchedulerRunStep(r))

\* The normalizer on its own: a manual run that has fetched and archived up to
\* MaxBatchRecords records, any of them malformed, is about to normalize them
NormalizerInit ==
    /\ \E raw \in UNION {[1..n -> RawRecords] : n \in 1..MaxBatchRecords} :
          LET key == _generate_s3_key(1, 1) IN
          /\ run = [r \in Runs |->
                      IF r = 1
                      THEN [StartedRun("manual", None, 1) EXCEPT
                              !.pc = "normalize", !.raw_listings = raw, !.s3_key = key,
                              !.stages = <<"fetch", "archive">>,
                              !.job_status = [@ EXCEPT !.total_fetched = Len(raw)]]
                      ELSE IdleRun]
          /\ s3 = {[key |-> key, writer |-> 1, record_count |-> Len(raw)]}
    /\ nruns = 1
    /\ crawl_jobs = {NewJobRow(1, 1, NewJobStatus)}
    /\ listings = {}
    /\ index_docs = {}
    /\ clock = 0
    /\ db_initialized = [p \in {"api", "scheduler"} |-> p = "api"]
    /\ running = FALSE
    /\ current_task = None
    /\ cron_last = 0
    /\ loop = [l \in Loops |-> [pc |-> "off", task |-> None, next_run |-> 0]]
    /\ nstarts = 0
    /\ now = 0

NormalizerNext == \E r \in Runs : NormalizeListings(r)

\* A record with the free-text fields property_type and status
TextRecord(property_type, status) ==
    [id |-> 1, property_type |-> property_type, status |-> status]

\* The listings table as earlier runs and a soft delete left it: a row for each
\* mls_id of `ids`, inserted at time 0 from one archive, those of `deleted`
\* soft-deleted since. No code of the crawler writes is_active or deleted_at
\* after the insert: the soft delete is the work of another writer of the
\* shared table.
EarlierListings(ids, deleted) ==
    {LET x == NewListing(<<<<0, 0>>, m>>, [mls_id |-> m,
                                    raw_data_s3_key |-> _generate_s3_key(0, 1)], 0)
     IN  IF m \in deleted THEN SoftDeleted(x) ELSE x : m \in ids}

\* The API process started on a database that holds listings already, any of
\* them soft-deleted
SoftDeleteInit ==
    /\ \E ids \in SUBSET MlsIds : \E deleted \in SUBSET ids :
          /\ listings = EarlierListings(ids, deleted)
          /\ s3 = IF ids = {} THEN {}
                  ELSE {[key |-> _generate_s3_key(0, 1), writer |-> None,
                         record_count |-> Cardinality(ids)]}
          /\ index_docs = {[_id |-> m, mls_id |-> m] : m \in ids}
    /\ run = [r \in Runs |-> IdleRun]
    /\ nruns = 0
    /\ crawl_jobs = {}
    /\ clock = 0
    /\ db_initialized = [p \in {"api", "scheduler"} |-> p = "api"]
    /\ running = FALSE
    /\ current_task = None
    /\ cron_last = 0
    /\ loop = [l \in Loops |-> [pc |-> "off", task |-> None, next_run |-> 0]]
    /\ nstarts = 0
    /\ now = 0

\* ... one request at a time, a few upstream responses
SoftDeleteNext ==
    \/ TriggerCrawl(1)
    \/ \E r \in Runs : RunStep(r, ArrayBodies(FewResponses), FALSE)

SoftDeleteSpec == SoftDeleteInit /\ [][SoftDeleteNext]_vars

\* The API process, requests overlapping, a request possibly given the job_id
\* of an earlier one
JobIdNext ==
    \/ TriggerCrawl(MaxRuns)
    \/ TriggerCrawlSameJobId(MaxRuns)
    \/ \E r \in Runs : RunStep(r, ArrayBodies(FewResponses), FALSE)

JobIdSpec == Init /\ [][JobIdNext]_vars

\* The free-text fields on their own: the run of NormalizerInit, with one
\* well-formed record whose property_type and status are both any string of up
\* to MaxChars characters, or null
EnumInit ==
    /\ \E str \in StringsUpTo(MaxChars) \cup {Absent} :
          LET key == _generate_s3_key(1, 1)
              raw == <<TextRecord(str, str)>> IN
          /\ run = [r \in Runs |->
                      IF r = 1
                      THEN [StartedRun("manual", None, 1) EXCEPT
                              !.pc = "normalize", !.raw_listings = raw, !.s3_key = key,
                              !.stages = <<"fetch", "archive">>,
                              !.job_status = [@ EXCEPT !.total_fetched = Len(raw)]]
                      ELSE IdleRun]
          /\ s3 = {[key |-> key, writer |-> 1, record_count |-> Len(raw)]}
    /\ nruns = 1
    /\ crawl_jobs = {NewJobRow(1, 1, NewJobStatus)}
    /\ listings = {}
    /\ index_docs = {}
    /\ clock = 0
    /\ db_initialized = [p \in {"api", "scheduler"} |-> p = "api"]
    /\ running = FALSE
    /\ current_task = None
    /\ cron_last = 0
    /\ loop = [l \in Loops |-> [pc |-> "off", task |-> None, next_run |-> 0]]
    /\ nstarts = 0
    /\ now = 0

EnumSpec == EnumInit /\ [][NormalizerNext]_vars

NormalizerSpec == NormalizerInit /\ [][NormalizerNext]_vars

----------------------------------------------------------------------------
(* Claims *)

JobRowsOf(r) == {x \in crawl_jobs : x.job_id = run[r].job_id}

\* C1: every run that ends without the process crashing leaves its CrawlJob
\* record in a terminal status (completed or failed, never running).
C1_RecordEndsTerminal ==
    \A r \in Runs :
        run[r].pc \in Terminal =>
            \E x \in JobRowsOf(r) : x.status \in {"completed", "failed"}

\* C2: at most one pipeline run is active at any time, whether it was
\* triggered by the scheduler or by POST /crawl.
C2_SingleFlight == Cardinality({r \in Runs : Active(r)}) <= 1

\* C3: within one scheduler loop a new run is never started while the run the
\* loop triggered before is in progress: while a run of loop l is active, the
\* loop is awaiting that run and no other run of the loop is active.
C3_LoopAwaitsItsRun ==
    \A l \in Loops :
        \A r \in Runs :
            (run[r].loop = l /\ Active(r)) =>
                /\ loop[l].pc = "awaiting"
                /\ loop[l].task = r
                /\ \A q \in Runs : (run[q].loop = l /\ Active(q)) => q = r

\* C3 witness: a scheduled run is in progress, a fire time later than the one
\* it was started at has passed, and the loop is awaiting the run.
C3_Witness ==
    \E l \in Loops, r \in Runs :
        /\ run[r].loop = l /\ Active(r)
        /\ loop[l].pc = "awaiting"
        /\ now > loop[l].next_run

\* C4: a run that was cancelled in flight, after its CrawlJob record was
\* created, leaves the record failed with a cancellation-specific error.
C4_CancelledRunIsFailed ==
    \A r \in Runs :
        run[r].pc = "cancelled" =>
            \A x \in JobRowsOf(r) :
                x.status = "failed" /\ x.error_type = "CancelledError"

\* C5: after stop() no run is started by the scheduler unless start() is called
\* again (a scheduled run starts only while running is true), and every step a
\* loop takes while running is false ends the loop.
C5_StopEndsTheLoop ==
    [][/\ \A r \in Runs :
            (run[r].pc = "idle" /\ run'[r].pc # "idle" /\ run'[r].origin = "scheduled")
                => running
       /\ \A l \in Loops :
            (~running /\ loop[l].pc \in {"sleeping", "awaiting"} /\ loop'[l] # loop[l])
                => loop'[l].pc = "exited"]_vars

\* C5 witness: stop() cancelled the run in flight and the loop that awaited it
\* has ended; the scheduler is not running.
C5_Witness ==
    \E l \in Loops, r \in Runs :
        /\ run[r].loop = l /\ run[r].pc = "cancelled"
        /\ loop[l].pc = "exited"
        /\ ~running

Malformed(raw) == Cardinality({i \in DOMAIN raw : ~MLSRawListingValid(raw[i])})

\* C6: when more than 10% of the fetched listings are malformed, the run ends
\* failed and nothing of it is persisted (total_saved = 0).
C6_ThresholdFailsTheRun ==
    \A r \in Runs :
        (/\ run[r].pc = "final"
         /\ ~run[r].cancelling
         /\ Malformed(run[r].raw_listings) * 10 > Len(run[r].raw_listings))
            => /\ run[r].job_status.status = "failed"
               /\ run[r].job_status.total_saved = 0

CountersOrdered(js) ==
    /\ js.total_fetched >= js.total_processed
    /\ js.total_processed >= js.total_saved
    /\ js.total_indexed <= js.total_processed

CountersGrow(a, b) ==
    /\ b.total_fetched >= a.total_fetched
    /\ b.total_processed >= a.total_processed
    /\ b.total_saved >= a.total_saved
    /\ b.total_indexed >= a.total_indexed

\* C7: in every state of every run, in the job status and in the CrawlJob
\* record, total_fetched >= total_processed >= total_saved and
\* total_indexed <= total_processed; no counter of a run ever decreases.
C7_CounterOrdering ==
    /\ [](/\ \A r \in Runs : CountersOrdered(run[r].job_status)
          /\ \A x \in crawl_jobs : CountersOrdered(x))
    /\ [][/\ \A r \in Runs :
               run[r].pc # "idle" => CountersGrow(run[r].job_status, run'[r].job_status)
          /\ \A x \in crawl_jobs : \A y \in crawl_jobs' :
               x.job_id = y.job_id => CountersGrow(x, y)]_vars

\* C7 witness: a completed record with positive counters and fewer listings
\* processed than fetched, fewer saved than processed: a malformed record was
\* fetched and a batch was rolled back part way.
C7_Witness ==
    \E x \in crawl_jobs :
        /\ x.status = "completed"
        /\ x.total_fetched > x.total_processed
        /\ x.total_processed > x.total_saved
        /\ x.total_saved > 0
        /\ x.total_indexed > 0

BatchIds(batch) == {batch[i].mls_id : i \in DOMAIN batch}
RowIds(rows) == {x.mls_id : x \in rows}

\* C8: the listings table never holds two rows with one mls_id; a batch whose
\* mls_ids are all stored already leaves the number of rows unchanged; a
\* committed batch advances updated_at of every row it touches; no row is lost.
C8_UpsertIsIdempotent ==
    /\ [](\A x \in listings : \A y \in listings : x.mls_id = y.mls_id => x = y)
    /\ [][\A r \in Runs :
            (run[r].pc = "save" /\ run'[r].batch_start # run[r].batch_start) =>
                LET batch == BatchAt(run[r].normalized, run[r].batch_start) IN
                /\ BatchIds(batch) \subseteq RowIds(listings)
                      => Cardinality(listings') = Cardinality(listings)
                /\ clock' # clock =>
                      \A x \in listings :
                          x.mls_id \in BatchIds(batch) =>
                              \E y \in listings' :
                                  y.id = x.id /\ y.updated_at > x.updated_at
                /\ \A x \in listings : \E y \in listings' : y.id = x.id]_vars

\* C8 witness: a later run has saved, in batches that committed, data that an
\* earlier run stored: every listing of it, one mls_id twice among them, is a
\* row the earlier run inserted, updated since.
C8_Witness ==
    \E r \in Runs :
        /\ run[r].pc = "index"
        /\ Len(run[r].normalized) = 3
        /\ Cardinality(BatchIds(run[r].normalized)) = 2
        /\ \A i \in DOMAIN run[r].save_log : run[r].save_log[i].committed
        /\ Cardinality(listings) = 2
        /\ \A x \in listings :
              /\ x.mls_id \in BatchIds(run[r].normalized)
              /\ x.raw_data_s3_key # run[r].s3_key
              /\ x.updated_at > x.created_at

RECURSIVE SumCommitted(_)
SumCommitted(log) ==
    IF log = <<>> THEN 0
    ELSE (IF log[1].committed THEN log[1].size ELSE 0) + SumCommitted(Tail(log))

\* C9: when the save stage has returned, total_saved is the number of listings
\* in the batches that committed; a rolled-back batch adds nothing.
C9_SavedCountsCommitted ==
    \A r \in Runs :
        run[r].pc = "index" =>
            run[r].job_status.total_saved = SumCommitted(run[r].save_log)

RECURSIVE SumIndexed(_)
SumIndexed(log) ==
    IF log = <<>> THEN 0 ELSE log[1].stats.indexed + SumIndexed(Tail(log))

KeyReturned(r) == run[r].s3_key # NoKey /\ run[r].pc # "archive"

\* C11: once store_raw_data has returned a key in a run, the object under that
\* key stays present and unmodified (the records of that run) for the rest of
\* the run and through all later runs.
C11_RawObjectStays ==
    \A r \in Runs :
        KeyReturned(r) =>
            \E o \in s3 :
                /\ o.key = run[r].s3_key
                /\ o.writer = r
                /\ o.record_count = run[r].job_status.total_fetched

\* C18: any two archive writes, those of one second and of concurrent runs
\* included, get distinct keys.
C18_KeysAreDistinct ==
    \A r \in Runs : \A q \in Runs :
        (r # q /\ KeyReturned(r) /\ KeyReturned(q)) => run[r].s3_key # run[q].s3_key

\* The stages that have returned are the first stages of the pipeline, in order
StagesInOrder(r) ==
    /\ Len(run[r].stages) <= Len(Pipeline)
    /\ \A i \in DOMAIN run[r].stages : run[r].stages[i] = Pipeline[i]

\* A stage is being executed only when exactly the stages before it have returned
StageAfterStage(r) ==
    /\ run[r].pc = "fetch" => Len(run[r].stages) = 0
    /\ run[r].pc = "archive" => Len(run[r].stages) = 1
    /\ run[r].pc = "normalize" => Len(run[r].stages) = 2
    /\ run[r].pc = "save" => Len(run[r].stages) = 3
    /\ run[r].pc = "index" => Len(run[r].stages) = 4

CompletedAtEnd(r) == run[r].pc = "final" /\ run[r].job_status.status = "completed"

\* C12 as stated: stages run in the order fetch, archive, normalize, persist,
\* index, each after the one before has returned, and every run whose final
\* status is completed has executed all five.
C12_NoStageSkipped ==
    \A r \in Runs :
        /\ StagesInOrder(r)
        /\ StageAfterStage(r)
        /\ CompletedAtEnd(r) => run[r].stages = Pipeline

\* C12 amended: stages run in that order, each after the one before has
\* returned; a completed run that fetched at least one record has executed all
\* five, and a completed run that fetched none has executed the fetch alone.
C12_StagesInOrderUnlessEmpty ==
    \A r \in Runs :
        /\ StagesInOrder(r)
        /\ StageAfterStage(r)
        /\ CompletedAtEnd(r) =>
              IF run[r].job_status.total_fetched > 0
              THEN run[r].stages = Pipeline
              ELSE run[r].stages = <<"fetch">>

\* C12 witness: a run that fetched records is completed, all five stages done.
C12_Witness ==
    \E r \in Runs :
        /\ CompletedAtEnd(r)
        /\ run[r].job_status.total_fetched > 0
        /\ run[r].stages = Pipeline

\* The errors a stage raises: the fetch (its last attempt) and the archive (its
\* last upload attempt)
StageErrors == {"HTTPError", "ClientError"}

\* C13: when a stage raised a fatal error, the run's CrawlJob record ends
\* failed, with an error message and an error detail, the counters of the
\* stages before the failure as those stages left them and the others 0; a
\* completed record has no error message.
C13_FailedRecordCarriesError ==
    /\ \A r \in Runs :
          (/\ run[r].pc = "done"
           /\ run[r].job_status.status = "failed"
           /\ run[r].job_status.error_type \in StageErrors)
              => \E x \in JobRowsOf(r) :
                    /\ x.status = "failed"
                    /\ x.error_message # "none"
                    /\ x.error_type = run[r].job_status.error_type
                    /\ x.total_fetched = run[r].job_status.total_fetched
                    /\ (x.error_type = "HTTPError") = (x.total_fetched = 0)
                    /\ x.total_processed = 0
                    /\ x.total_saved = 0
                    /\ x.total_indexed = 0
    /\ \A x \in crawl_jobs : x.status = "completed" => x.error_message = "none"

\* C14: no exception raised inside a run leaves run_crawl_job: the task ends by
\* returning its job status (or by the cancellation it was sent).
C14_NothingPropagates == \A r \in Runs : run[r].pc # "raised"

\* C15: every document a run writes to the index is a listing of a persistence
\* batch that committed in that run: bulk write i carries the listings of
\* persistence batch i, and indexes none of them unless that batch committed.
C15_IndexedOnlyIfCommitted ==
    \A r \in Runs :
        \A i \in DOMAIN run[r].bulk_log :
            run[r].bulk_log[i].stats.indexed > 0 =>
                /\ i \in DOMAIN run[r].save_log
                /\ run[r].save_log[i].committed

\* C16: every run creates exactly one CrawlJob row, running and with a
\* configuration snapshot, before the fetch; every run that returns failed or
\* completed has exactly one row.
C16_OneJobRowPerRun ==
    \A r \in Runs :
        /\ run[r].pc \in {"fetch", "archive", "normalize", "save", "index"} =>
              /\ Cardinality(JobRowsOf(r)) = 1
              /\ \A x \in JobRowsOf(r) : x.status = "running" /\ x.config_snapshot
        /\ (run[r].pc = "done" /\ run[r].job_status.status \in {"failed", "completed"}) =>
              Cardinality(JobRowsOf(r)) = 1

\* The delays slept after failed attempts 0 .. n-1
Backoff(n) == [k \in 1..n |-> mls_retry_delay * (2 ^ (k - 1))]

\* C17: a fetch makes at most mls_retry_attempts upstream calls; after failed
\* attempt k it has slept mls_retry_delay * 2^k; it stops at the first attempt
\* that succeeds; the last failed attempt raises without a sleep, and the run
\* ends failed with total_fetched = 0.
C17_FetchRetriesAreBounded ==
    /\ [](\A r \in Runs :
            /\ run[r].pc = "fetch" =>
                  /\ run[r].attempt < mls_retry_attempts
                  /\ run[r].slept = Backoff(run[r].attempt)
            /\ (run[r].pc = "final" /\ run[r].job_status.error_type = "HTTPError") =>
                  /\ run[r].slept = Backoff(mls_retry_attempts - 1)
                  /\ run[r].job_status.status = "failed"
                  /\ run[r].job_status.total_fetched = 0)
    /\ [][\A r \in Runs :
            (run[r].pc = "fetch" /\ run'[r].response # NoResponse) =>
                /\ run'[r].pc \in {"archive", "final"}
                /\ run'[r].job_status.status # "failed"]_vars

\* C17 witness: the fetch has failed on every attempt: the run is failed with
\* nothing fetched, after the two sleeps of 5 and 10 seconds.
C17_Witness ==
    \E r \in Runs :
        /\ run[r].pc = "final"
        /\ run[r].job_status.error_type = "HTTPError"
        /\ run[r].slept = <<5, 10>>

\* The batches _index_in_opensearch cuts a list of n listings into
BatchCount(n) == (n + batch_size - 1) \div batch_size

\* C19: a bulk write that raises as a whole counts indexed = 0 and failed = the
\* size of its batch; the run goes on with the next batch, every batch is
\* submitted, and the run ends completed.
C19_TransportFailureIsCounted ==
    /\ [](\A r \in Runs :
            /\ \A i \in DOMAIN run[r].bulk_log :
                  LET e == run[r].bulk_log[i] IN
                  e.transport => e.stats.indexed = 0 /\ e.stats.failed = e.m
            /\ (run[r].pc = "final" /\ ~run[r].cancelling
                    /\ \E i \in DOMAIN run[r].bulk_log : run[r].bulk_log[i].transport)
                  => /\ run[r].job_status.status = "completed"
                     /\ Len(run[r].bulk_log) = BatchCount(Len(run[r].normalized)))
    /\ [][\A r \in Runs :
            (/\ run[r].pc = "index"
             /\ Len(run'[r].bulk_log) > Len(run[r].bulk_log)
             /\ run'[r].bulk_log[Len(run'[r].bulk_log)].transport)
                => /\ run'[r].pc = "index"
                   /\ run'[r].batch_start = run[r].batch_start + batch_size
                   /\ run'[r].job_status = run[r].job_status
                   /\ index_docs' = index_docs]_vars

\* C19 witness: the first bulk write of a run raised, the second indexed its
\* document, and the run is completed with total_indexed = 1.
C19_Witness ==
    \E r \in Runs :
        /\ run[r].pc = "final" /\ run[r].job_status.status = "completed"
        /\ Len(run[r].bulk_log) = 2
        /\ run[r].bulk_log[1].transport /\ run[r].bulk_log[1].stats.failed = 2
        /\ ~run[r].bulk_log[2].transport /\ run[r].bulk_log[2].stats.indexed = 1
        /\ run[r].job_status.total_indexed = 1

\* C20: the fetch reduces the response to a flat sequence of records: an array
\* gives its elements, an object with the key listings the value under it,
\* otherwise an object with the key data the value under data; total_fetched
\* is the length of that sequence.
C20_ResponseShapes ==
    \A r \in Runs :
        LET data == run[r].response IN
        data # NoResponse =>
            /\ data.kind = "list" => run[r].raw_listings = data.items
            /\ (data.kind = "dict" /\ "listings" \in data.keys) =>
                  run[r].raw_listings = data.listings
            /\ (data.kind = "dict" /\ "listings" \notin data.keys /\ "data" \in data.keys) =>
                  run[r].raw_listings = data.data
            /\ run[r].job_status.total_fetched = Len(run[r].raw_listings)

\* C20 witness: the response was an object with both keys, the two values
\* different; the run goes on with the records under listings.
C20_Witness ==
    \E r \in Runs :
        /\ run[r].response.kind = "dict"
        /\ run[r].response.keys = {"listings", "data"}
        /\ Len(run[r].response.listings) = 2
        /\ run[r].response.data = <<[id |-> 1]>>
        /\ run[r].pc = "archive"
        /\ run[r].job_status.total_fetched = 2

\* C21: a fetch returns at most max_listings_per_run records: total_fetched of
\* every run is at most max_listings_per_run, whatever the response holds.
C21_FetchIsCapped ==
    \A r \in Runs : run[r].job_status.total_fetched <= max_listings_per_run

\* The waits of _upload_with_retry after failed attempts 0 .. n-1
UploadBackoff(n) == [k \in 1..n |-> upload_retry_delay * (2 ^ (k - 1))]

\* C22: the archive write makes at most 3 put attempts, with waits of 1 and 2
\* between them; it returns at the first put that succeeds; the third failure
\* raises and the run ends failed with total_processed = total_saved =
\* total_indexed = 0; a run normalizes, persists or indexes only with the
\* object of its archive written.
C22_ArchiveRetriesAreBounded ==
    /\ [](\A r \in Runs :
            /\ run[r].pc = "archive" =>
                  /\ run[r].attempt < 3
                  /\ run[r].slept = UploadBackoff(run[r].attempt)
            /\ (run[r].pc = "final" /\ run[r].job_status.error_type = "ClientError") =>
                  /\ run[r].slept = <<1, 2>>
                  /\ run[r].job_status.status = "failed"
                  /\ run[r].job_status.total_processed = 0
                  /\ run[r].job_status.total_saved = 0
                  /\ run[r].job_status.total_indexed = 0
                  /\ run[r].normalized = <<>>
                  /\ run[r].save_log = <<>> /\ run[r].bulk_log = <<>>
                  /\ ~\E o \in s3 : o.writer = r
            /\ (run[r].pc \in {"normalize", "save", "index"} \/ run[r].normalized # <<>>) =>
                  \E o \in s3 : o.key = run[r].s3_key /\ o.writer = r)
    /\ [][\A r \in Runs :
            (run[r].pc = "archive" /\ s3' # s3) =>
                /\ run'[r].pc = "normalize"
                /\ run'[r].job_status = run[r].job_status]_vars

\* C22 witness: the three put attempts of a run have failed: the run is failed
\* after waits of 1 and 2, with records fetched and nothing processed.
C22_Witness ==
    \E r \in Runs :
        /\ run[r].pc = "final"
        /\ run[r].job_status.error_type = "ClientError"
        /\ run[r].slept = <<1, 2>>
        /\ run[r].job_status.total_fetched > 0
        /\ run[r].job_status.total_processed = 0

\* One NormalizedListing for each well-formed record of raw, in input order
WellFormedListings(raw, key) ==
    LET good == SelectSeq(raw, MLSRawListingValid)
    IN  [i \in 1..Len(good) |-> from_mls_listing(good[i], key)]

\* _normalize_listings has just returned in run r
JustNormalized(r) == run[r].pc = "save" /\ run[r].batch_start = 0 /\ run[r].save_log = <<>>

\* C23: for N records of which S are malformed, S * 10 <= N, the normalizer
\* returns one NormalizedListing for each well-formed record, in input order,
\* total_processed = N - S, and the run has not failed.
C23_MalformedAreSkipped ==
    \A r \in Runs :
        LET raw == run[r].raw_listings IN
        (JustNormalized(r) /\ Malformed(raw) * 10 <= Len(raw)) =>
            /\ run[r].normalized = WellFormedListings(raw, run[r].s3_key)
            /\ run[r].job_status.total_processed = Len(raw) - Malformed(raw)
            /\ run[r].job_status.status = "running"

\* C23 witness: ten records, the fifth malformed (the boundary S * 10 = N), and
\* the nine others normalized, a well-formed one after the malformed one.
C23_Witness ==
    \E r \in Runs :
        /\ JustNormalized(r)
        /\ Len(run[r].raw_listings) = 10
        /\ Malformed(run[r].raw_listings) = 1
        /\ ~MLSRawListingValid(run[r].raw_listings[5])
        /\ Len(run[r].normalized) = 9
        /\ run[r].normalized[9].mls_id = run[r].raw_listings[10].id

\* The records _normalize_listings skipped in run r (its local errors), once
\* the stage has returned
NormalizerErrors(r) ==
    IF Len(run[r].stages) >= 3
    THEN _normalize_listings(run[r].raw_listings, run[r].s3_key).errors
    ELSE 0

\* The normalizer of run r left its loop by break
NormalizerAborted(r) ==
    NormalizerErrors(r) + Len(run[r].normalized) < Len(run[r].raw_listings)

\* C24: when the final update writes the CrawlJob record of a run, total_errors
\* is at least the number of records the normalizer skipped, and total_fetched
\* = total_processed + skipped unless the normalizer aborted.
C24_SkippedAreCounted ==
    [][\A r \in Runs :
          (run[r].pc = "final" /\ run'[r].pc = "done" /\ Len(run[r].stages) >= 3) =>
              \A x \in crawl_jobs' :
                  (x.job_id = r /\ x.status \in {"completed", "failed"}) =>
                      /\ x.total_errors >= NormalizerErrors(r)
                      /\ ~NormalizerAborted(r) =>
                            x.total_fetched = x.total_processed + NormalizerErrors(r)]_vars

\* raw is key with leading and trailing whitespace added and any of its letters
\* in capitals
MatchesKey(raw, key) ==
    \E i \in 0..Len(raw) :
        /\ i + Len(key) <= Len(raw)
        /\ \A k \in 1..Len(raw) :
              IF k > i /\ k <= i + Len(key)
              THEN \/ raw[k] = key[k - i]
                   \/ \E u \in 1..26 : raw[k] = UpperCase[u] /\ key[k - i] = LowerCase[u]
              ELSE IsSpace(raw[k])

\* What a raw string must map to: the entry of the key it matches, otherwise
\* the default, and no value for None, the empty string and blanks
ExpectedEnum(raw, mapping, default) ==
    IF raw = Absent \/ \A k \in 1..Len(raw) : IsSpace(raw[k]) THEN "None"
    ELSE IF \E key \in DOMAIN mapping : MatchesKey(raw, key)
         THEN mapping[CHOOSE key \in DOMAIN mapping : MatchesKey(raw, key)]
         ELSE default

\* C25: enum normalization never fails: each normalized listing's property type
\* and status are those its raw strings match in the synonym dictionaries,
\* whatever the case and the padding; an unmatched non-empty property type is
\* OTHER, an unmatched non-empty status is ACTIVE, an absent or empty value is
\* None.
C25_EnumNormalization ==
    \A r \in Runs :
        (JustNormalized(r) /\ Malformed(run[r].raw_listings) = 0) =>
            /\ Len(run[r].normalized) = Len(run[r].raw_listings)
            /\ \A i \in DOMAIN run[r].normalized :
                  LET raw == run[r].raw_listings[i]
                      out == run[r].normalized[i]
                  IN  /\ out.property_type =
                            IF "property_type" \in DOMAIN raw
                            THEN ExpectedEnum(raw.property_type, type_mapping, "OTHER")
                            ELSE "None"
                      /\ out.status =
                            IF "status" \in DOMAIN raw
                            THEN ExpectedEnum(raw.status, status_mapping, "ACTIVE")
                            ELSE "None"

\* C25 witness: the string " Lot " has been normalized: the property type is
\* LAND and the status, for which the string is no synonym, is ACTIVE.
C25_Witness ==
    \E r \in Runs :
        /\ JustNormalized(r)
        /\ run[r].raw_listings = <<TextRecord(<<" ", "L", "o", "t", " ">>,
                                               <<" ", "L", "o", "t", " ">>)>>
        /\ run[r].normalized[1].property_type = "LAND"
        /\ run[r].normalized[1].status = "ACTIVE"

\* C26: every NormalizedListing of a run carries the key that run's archive
\* stage returned, and when a batch of the run commits, each row it inserted or
\* updated has that key as raw_data_s3_key.
C26_RowPointsToItsArchive ==
    /\ [](\A r \in Runs : \A i \in DOMAIN run[r].normalized :
            KeyReturned(r) /\ run[r].normalized[i].raw_data_s3_key = run[r].s3_key)
    /\ [][\A r \in Runs :
            (run[r].pc = "save" /\ clock' # clock) =>
                LET batch == BatchAt(run[r].normalized, run[r].batch_start) IN
                \A x \in listings' :
                    x.mls_id \in BatchIds(batch) => x.raw_data_s3_key = run[r].s3_key]_vars

\* C27: a run that goes through the index stage issues refresh_index exactly
\* once, after every batch has been submitted and before total_indexed is
\* reported; whether the refresh succeeds or fails, the run is completed and
\* total_indexed is the sum over the batches.
C27_RefreshOncePerRun ==
    /\ [](\A r \in Runs :
            /\ Len(run[r].stages) < 5 => run[r].refresh_log = <<>>
            /\ run[r].stages = Pipeline =>
                  /\ Len(run[r].refresh_log) = 1
                  /\ Len(run[r].bulk_log) = BatchCount(Len(run[r].normalized))
                  /\ run[r].job_status.status = "completed"
                  /\ run[r].job_status.total_indexed = SumIndexed(run[r].bulk_log))
    /\ [][\A r \in Runs :
            /\ Len(run'[r].refresh_log) > Len(run[r].refresh_log) =>
                  /\ run[r].pc = "index" /\ run'[r].pc = "final"
                  /\ Len(run[r].bulk_log) = BatchCount(Len(run[r].normalized))
                  /\ run'[r].bulk_log = run[r].bulk_log
                  /\ run[r].job_status.total_indexed = 0
                  /\ run'[r].job_status.total_indexed = run[r].count
            /\ (run[r].pc = "index" /\ run'[r].pc = "index") =>
                  run'[r].job_status.total_indexed = 0]_vars

\* C27 witness: the refresh of a run failed after two bulk writes; the run is
\* completed and reports the two documents the bulk writes indexed.
C27_Witness ==
    \E r \in Runs :
        /\ run[r].pc = "final"
        /\ run[r].refresh_log = <<FALSE>>
        /\ Len(run[r].bulk_log) = 2
        /\ run[r].job_status.status = "completed"
        /\ run[r].job_status.total_indexed = 2

\* The batches of a log, one after the other
RECURSIVE BatchesOf(_)
BatchesOf(log) == IF log = <<>> THEN <<>> ELSE log[1].batch \o BatchesOf(Tail(log))

\* The batches of log are a partition of the list into consecutive slices of
\* 1 to batch_size listings
Partitions(log, list) ==
    /\ BatchesOf(log) = list
    /\ \A i \in DOMAIN log : Len(log[i].batch) \in 1..batch_size

\* C28: when the persistence stage reports its total, and when the index stage
\* does, the batches it attempted partition the normalized listings: each
\* listing is in exactly one batch, no batch has more than batch_size listings,
\* and every batch was attempted, those after a failed batch included.
C28_BatchesPartition ==
    \A r \in Runs :
        /\ Len(run[r].stages) >= 4 => Partitions(run[r].save_log, run[r].normalized)
        /\ Len(run[r].stages) >= 5 => Partitions(run[r].bulk_log, run[r].normalized)

\* C28 witness: three listings went through both stages in two batches each;
\* the first persistence batch was rolled back and the first bulk write raised,
\* and the second batch of each stage was attempted and succeeded.
C28_Witness ==
    \E r \in Runs :
        /\ run[r].stages = Pipeline
        /\ Len(run[r].normalized) = 3
        /\ Len(run[r].save_log) = 2 /\ Len(run[r].bulk_log) = 2
        /\ ~run[r].save_log[1].committed /\ run[r].save_log[2].committed
        /\ run[r].bulk_log[1].transport /\ run[r].bulk_log[2].stats.indexed = 1

\* C29: a persistence batch that fails leaves the listings table as it was
\* before the batch: none of its inserts or updates is visible and the rows of
\* the batches committed before it remain; a batch that commits, also after a
\* failed one, leaves a row for each of its listings and loses no row.
C29_RollbackIsPerBatch ==
    [][\A r \in Runs :
          (run[r].pc = "save" /\ Len(run'[r].save_log) > Len(run[r].save_log)) =>
              LET e == run'[r].save_log[Len(run'[r].save_log)] IN
              IF e.committed
              THEN /\ \A x \in listings : \E y \in listings' : y.id = x.id
                   /\ BatchIds(e.batch) \subseteq RowIds(listings')
              ELSE listings' = listings]_vars

\* C29 witness: the first batch of a run committed two new rows; the second
\* batch updated one of them and failed at its commit: the table holds the two
\* rows as the first batch wrote them, the update is not visible.
C29_Witness ==
    \E r \in Runs :
        /\ run[r].pc = "save" /\ Len(run[r].save_log) = 2
        /\ run[r].save_log[1].committed /\ run[r].save_log[1].size = 2
        /\ ~run[r].save_log[2].committed /\ run[r].save_log[2].count = 1
        /\ Cardinality(listings) = 2
        /\ BatchIds(run[r].save_log[2].batch) \subseteq RowIds(listings)
        /\ \A x \in listings :
              x.raw_data_s3_key = run[r].s3_key /\ x.updated_at = x.created_at

\* C30: the list of error descriptions a bulk write returns is a bounded
\* sample: it is never longer than the sample size, however many items of the
\* response failed.
C30_ErrorSampleIsBounded ==
    \A r \in Runs :
        \A i \in DOMAIN run[r].bulk_log :
            Len(run[r].bulk_log[i].stats.errors) <= error_sample_size

\* The runs the scheduler has triggered
ScheduledRuns == Cardinality({r \in Runs : run[r].origin = "scheduled"})

\* C31: the scheduler advances its cron iterator once per triggered run, so the
\* k-th run it triggers is the run of the k-th fire time: a loop that sleeps
\* sleeps until the fire time after those of the runs triggered so far, and a
\* loop that awaits a run triggered it at the fire time of its rank; no fire
\* time is skipped.
C31_OneRunPerFireTime ==
    \A l \in Loops :
        /\ loop[l].pc = "sleeping" =>
              /\ loop[l].next_run = ScheduledRuns + 1
              /\ cron_last = ScheduledRuns + 1
        /\ loop[l].pc = "awaiting" =>
              /\ loop[l].next_run = ScheduledRuns
              /\ cron_last = ScheduledRuns

LoopActive(l) == loop[l].pc \in {"sleeping", "awaiting"}

\* C33: whatever start() and stop() calls are made on one scheduler, at most
\* one loop is active and at most one crawl task the scheduler triggered is in
\* progress at any time, and a call of start() starts a loop only when running
\* is false.
C33_OneLoopOneTask ==
    /\ [](/\ Cardinality({l \in Loops : LoopActive(l)}) <= 1
          /\ Cardinality({r \in Runs : Active(r) /\ run[r].origin = "scheduled"}) <= 1)
    /\ [][nstarts' > nstarts => ~running]_vars

\* Run r, triggered by the scheduler, ended failed or by raising
EndedInFailure(r) ==
    /\ run[r].origin = "scheduled"
    /\ \/ run[r].pc = "raised"
       \/ run[r].pc = "done" /\ run[r].job_status.status = "failed"

\* C32: when a scheduled run has ended failed, or has raised into the loop, and
\* stop() is not called, the scheduler eventually triggers the next run.
C32_FailureDoesNotStopTheLoop ==
    \A r \in 1..(MaxRuns - 1) :
        EndedInFailure(r) ~> (run[r + 1].origin = "scheduled")

\* C32 witness: the first scheduled run raised out of run_crawl_job, and the
\* loop has triggered a second run.
C32_Witness ==
    /\ run[1].origin = "scheduled" /\ run[1].pc = "raised"
    /\ run[2].origin = "scheduled" /\ Active(2)
    /\ running

\* C34: a run is completed only if a fetch attempt of it succeeded: a completed
\* run either holds the response body an attempt returned or has records, which
\* only a response gives; with no successful attempt (all failed, or none made)
\* the run is failed.
C34_CompletedNeedsAFetch ==
    \A r \in Runs :
        /\ CompletedAtEnd(r) =>
              run[r].response # NoResponse \/ run[r].raw_listings # <<>>
        /\ (run[r].pc = "final" /\ run[r].stages = <<"fetch">>
                /\ run[r].response = NoResponse /\ ~run[r].cancelling)
              => run[r].job_status.status = "failed"

\* The run is in its finally block after `if not raw_listings: ... return`
EmptyFetched(r) ==
    /\ run[r].pc = "final" /\ ~run[r].cancelling
    /\ run[r].stages = <<"fetch">> /\ run[r].raw_listings = <<>>

\* job_status of the early return: completed, completion time set, the five
\* counters 0
EmptyCompleted == [NewJobStatus EXCEPT !.status = "completed", !.completed_at = TRUE]

\* The CrawlJob row of run r carries the job_status js
RecordCarries(x, r, js) ==
    /\ x.job_id = r /\ x.status = js.status /\ x.completed_at = js.completed_at
    /\ x.total_fetched = js.total_fetched /\ x.total_processed = js.total_processed
    /\ x.total_saved = js.total_saved /\ x.total_indexed = js.total_indexed
    /\ x.total_errors = js.total_errors

\* C35: when the fetch returns an empty sequence, the run ends completed with
\* the five counters 0 and a completion time, its CrawlJob record is updated to
\* that state, and the run writes no archive object, listing row or index
\* document.
C35_EmptyFetchCompletesAndWritesNothing ==
    /\ [](\A r \in Runs : EmptyFetched(r) => run[r].job_status = EmptyCompleted)
    /\ [][\A r \in Runs :
            (run[r].pc = "fetch" /\ run'[r].pc = "final" /\ run'[r].raw_listings = <<>>
                /\ run'[r].stages = <<"fetch">>)
              => UNCHANGED <<listings, s3, index_docs>>]_vars
    /\ [][\A r \in Runs :
            (EmptyFetched(r) /\ run'[r].pc \in Terminal)
              => /\ UNCHANGED <<listings, s3, index_docs>>
                 /\ run'[r].pc = "done"
                 /\ run'[r].job_status = EmptyCompleted
                 /\ \E x \in crawl_jobs' : RecordCarries(x, r, EmptyCompleted)]_vars

\* C36: the search index holds at most one document per mls_id: the document
\* id is the mls_id, indexing a listing whose mls_id is already indexed
\* replaces its document, and a bulk write of listings that are all indexed
\* already leaves the number of documents as it was.
C36_OneDocumentPerMlsId ==
    /\ [](\A d1, d2 \in index_docs : d1.mls_id = d2.mls_id => d1 = d2)
    /\ [](\A d \in index_docs : d._id = d.mls_id)
    /\ [][\A r \in Runs :
            (run[r].pc = "index" /\ Len(run'[r].bulk_log) > Len(run[r].bulk_log))
              => LET e == run'[r].bulk_log[Len(run'[r].bulk_log)]
                 IN  (\A i \in 1..Len(e.batch) :
                         \E d \in index_docs : d.mls_id = e.batch[i].mls_id)
                       => Cardinality(index_docs') = Cardinality(index_docs)]_vars

\* C36 witness: the second run has indexed, with no item rejected, a batch
\* whose listing the first run had indexed, and the index holds one document.
C36_Witness ==
    /\ run[1].pc = "done" /\ run[1].job_status.total_indexed >= 1
    /\ run[2].pc = "index" /\ run[2].bulk_log # <<>>
    /\ LET e == run[2].bulk_log[1]
       IN  ~e.transport /\ e.k = 0 /\ e.stats.indexed = e.m /\ e.m >= 1
    /\ Cardinality(index_docs) = 1

\* C37: an upsert that updates an existing row leaves its id, mls_id,
\* created_at, is_active and deleted_at unchanged; a soft-deleted listing that
\* is ingested again stays inactive.
C37_UpdateKeepsIdentityAndSoftDelete ==
    [][\A x \in listings :
          \E y \in listings' :
             /\ y.id = x.id /\ y.mls_id = x.mls_id /\ y.created_at = x.created_at
             /\ y.is_active = x.is_active /\ y.deleted_at = x.deleted_at]_vars

\* C37 witness: a run has saved a batch of one listing whose row was
\* soft-deleted: the row carries the time of the update and is still inactive.
C37_Witness ==
    \E r \in Runs, x \in listings :
        /\ run[r].save_log # <<>>
        /\ LET e == run[r].save_log[1]
           IN  e.committed /\ e.size = 1 /\ e.batch[1].mls_id = x.mls_id
        /\ ~x.is_active /\ x.deleted_at
        /\ x.updated_at > x.created_at

\* The objects of the bucket that an archive call of run r has written
ObjectsOf(r) == {o \in s3 : o.writer = r}

\* C38: the put attempts of one store_raw_data call all target the key
\* generated before the first of them, the call creates at most one object, and
\* the key it returns is the key of the attempt that succeeded.
C38_OneKeyPerArchiveCall ==
    /\ [](\A r \in Runs : Cardinality(ObjectsOf(r)) <= 1)
    /\ [][\A r \in Runs :
            (run[r].pc = "archive"
                /\ (run'[r].pc = "normalize"
                      \/ (run'[r].pc = "archive" /\ run'[r].attempt > run[r].attempt)))
              => /\ run[r].attempt > 0 => run'[r].s3_key = run[r].s3_key
                 /\ run'[r].s3_key # NoKey
                 /\ run'[r].pc = "archive" => s3' = s3
                 /\ run'[r].pc = "normalize" =>
                       \E o \in s3' : /\ o.key = run'[r].s3_key /\ o.writer = r
                                      /\ s3' \ s3 = {o}]_vars

\* C38 witness: the third put attempt of an archive call succeeded after two
\* failures, and the object is in the bucket under the key returned.
C38_Witness ==
    \E r \in Runs :
        /\ run[r].pc = "normalize" /\ run[r].slept = <<1, 2>>
        /\ \E o \in s3 : o.key = run[r].s3_key /\ o.writer = r

\* C39: the final job-record update of a run modifies only the CrawlJob row
\* that run created: no run changes another run's row, and a row that has
\* reached completed or failed is never modified again.
C39_FinalUpdateTouchesOwnRowOnly ==
    /\ [][\A r \in Runs :
            (run[r].pc = "final" /\ run'[r].pc \in Terminal)
              => \A x \in crawl_jobs : x.run # r => x \in crawl_jobs']_vars
    /\ [][\A x \in crawl_jobs :
            x.status \in {"completed", "failed"} => x \in crawl_jobs']_vars

====
